---- MODULE Spec2Model ----
(***************************************************************************)
(* A model of python-tool/fargate-comparison-tool.py: the Fargate size     *)
(* normaliser, the per-cluster usage aggregation, the price cache and the  *)
(* control flow of main().                                                 *)
(*                                                                         *)
(* Number representation.  The tool computes with Python floats; the model *)
(* uses exact integers in fixed units:                                     *)
(*   - a Fargate vcpu value is counted in quarter vCPUs (0.25 -> 1, 4 -> 16)*)
(*   - a Fargate memory option is counted in half GB   (0.5 -> 1, 30 -> 60)*)
(*   - task_cpu = cpu / 1024 and task_mem = memory / 1024 are carried as   *)
(*     their numerators over 1024 (the CPU units and the MB)               *)
(*   - cpu_fudge_factor = 1 + pct / 100 is carried in hundredths (100+pct) *)
(* For an integer percentage all comparisons of the code are decided       *)
(* exactly by these integers: equality of cpu/1024 and vcpu*fudge needs    *)
(* pct in {0,25,50,75,100}, where the float factor is exact, and any other *)
(* difference is far above the float rounding error.                       *)
(***************************************************************************)
EXTENDS Integers, Sequences, FiniteSets, TLC

VARIABLES
    args,                \* the dictionary parse_args returns
    pc,                  \* where main() is
    pos,                 \* items already visited by the loop main() is in
    clusters,            \* the list get_cluster_list returned
    cluster_ec2_totals,  \* cluster -> running total of its instances
    cluster_ecs_totals,  \* cluster -> (service -> service_info)
    price_history,       \* the global price cache
    ec2_sheet,           \* data rows of the 'EC2 Usage' worksheet
    fargate_sheet,       \* data rows of the 'Fargate Usage' worksheet
    output_file,         \* TRUE once workbook.close() has written the file
    ecs_calls,           \* calls made on the ECS client so far
    pricing_queries,     \* cache key -> get_products calls made for it
    last_lookups,        \* the price lookups of the latest step, in order
    task_defs,           \* service -> the containers its task definition had
    service_descs,       \* service -> what describe_services answered for it
    normIn, normOut,     \* the normaliser on its own: requests and results
    aggIn, aggTotal, aggPos, \* the aggregation on its own: records, total
    priceCall, priceCalls    \* the price functions on their own: latest call, count

runVars == <<args, pc, pos, clusters, cluster_ec2_totals, cluster_ecs_totals,
             price_history, ec2_sheet, fargate_sheet, output_file, ecs_calls,
             pricing_queries, last_lookups, task_defs, service_descs>>
normVars == <<normIn, normOut>>
aggVars == <<aggIn, aggTotal, aggPos>>
cacheVars == <<priceCall, priceCalls>>
vars == <<runVars, normVars, aggVars, cacheVars>>

\* Python's None, where a number is expected
None == -1

\* Python dictionaries are functions; {} is the empty function
EmptyDict == <<>>
Get(d, k, default) == IF k \in DOMAIN d THEN d[k] ELSE default
Put(d, k, v) == (k :> v) @@ d

REGION_MAP ==
    {"ap-northeast-1", "ap-northeast-2", "ap-northeast-3", "ap-south-1",
     "ap-southeast-1", "ap-southeast-2", "ca-central-1", "eu-central-1",
     "eu-north-1", "eu-west-1", "eu-west-2", "eu-west-3", "sa-east-1",
     "us-east-1", "us-east-2", "us-west-1", "us-west-2"}

\* range(a, b) of whole GB, as a sequence of half-GB counts
RangeGB(a, b) == [i \in 1..(b - a) |-> 2 * (a + i - 1)]

\* FARGATE_SIZES: quarter vCPUs -> memory options in half GB, in list order
FARGATE_SIZES ==
    (1 :> <<1, 2, 4>>) @@ (2 :> RangeGB(1, 4)) @@ (4 :> RangeGB(2, 9))
    @@ (8 :> RangeGB(4, 17)) @@ (16 :> RangeGB(8, 31))

\* sorted(keys): the keys of a dictionary in ascending order
RECURSIVE SortedSeq(_)
SortedSeq(S) ==
    IF S = {} THEN <<>>
    ELSE LET m == CHOOSE x \in S : \A y \in S : x <= y
         IN  <<m>> \o SortedSeq(S \ {m})

\* CpuTest with <= in place of <
CpuTestOrEqual(task_cpu, cpu, cpu_fudge_factor) ==
    task_cpu * 400 <= cpu * 1024 * cpu_fudge_factor

\* CpuTest with the fudge factor dividing the tier instead of multiplying it
CpuTestDivided(task_cpu, cpu, cpu_fudge_factor) ==
    task_cpu * cpu_fudge_factor * 4 < cpu * 1024 * 100

\* task_cpu < cpu * cpu_fudge_factor
\*   (task_cpu / 1024 < (cpu / 4) * (fudge / 100))
CpuTest(task_cpu, cpu, cpu_fudge_factor) ==
    task_cpu * 400 < cpu * 1024 * cpu_fudge_factor

\* MemTest with <= in place of <
MemTestOrEqual(task_mem, mem) == task_mem * 2 <= mem * 1024

\* MemTest on memory % 1024 in place of memory / 1024
MemTestModulo(task_mem, mem) == (task_mem % 1024) * 2 < mem * 1024

\* task_mem < mem   (task_mem / 1024 < mem / 2)
MemTest(task_mem, mem) == task_mem * 2 < mem * 1024

\* the inner loop: the first option of the list, from index i, that passes
RECURSIVE MemLoop(_, _, _)
MemLoop(options, i, task_mem) ==
    IF i > Len(options) THEN None
    ELSE IF MemTest(task_mem, options[i]) THEN options[i]
    ELSE MemLoop(options, i + 1, task_mem)

\* CpuLoop that stops at the first key passing the CPU test, whether or not
\* one of its memory options fits
RECURSIVE CpuLoopFirstKey(_, _, _, _, _)
CpuLoopFirstKey(keys, i, task_cpu, task_mem, cpu_fudge_factor) ==
    IF i > Len(keys) THEN <<None, None>>
    ELSE IF CpuTest(task_cpu, keys[i], cpu_fudge_factor)
    THEN LET mem == MemLoop(FARGATE_SIZES[keys[i]], 1, task_mem)
         IN  IF mem # None THEN <<keys[i], mem>> ELSE <<None, None>>
    ELSE CpuLoopFirstKey(keys, i + 1, task_cpu, task_mem, cpu_fudge_factor)

\* the outer loop over the sorted keys from index i: a key that passes the
\* CPU test and has no fitting memory option falls through to the next key
RECURSIVE CpuLoop(_, _, _, _, _)
CpuLoop(keys, i, task_cpu, task_mem, cpu_fudge_factor) ==
    IF i > Len(keys) THEN <<None, None>>
    ELSE LET cpu == keys[i]
             mem == IF CpuTest(task_cpu, cpu, cpu_fudge_factor)
                    THEN MemLoop(FARGATE_SIZES[cpu], 1, task_mem)
                    ELSE None
         IN  IF mem # None THEN <<cpu, mem>>
             ELSE CpuLoop(keys, i + 1, task_cpu, task_mem, cpu_fudge_factor)

adjust_task_size(task_cpu, task_mem, cpu_fudge_factor) ==
    CpuLoop(SortedSeq(DOMAIN FARGATE_SIZES), 1, task_cpu, task_mem,
            cpu_fudge_factor)

(***************************************************************************)
(* Usage aggregation                                                       *)
(***************************************************************************)

\* find_dict: the first entry of the list with the name; the model returns
\* its index and 0 where the code returns None
RECURSIVE FindFrom(_, _, _)
FindFrom(name, list_of_dicts, i) ==
    IF i > Len(list_of_dicts) THEN 0
    ELSE IF list_of_dicts[i].name = name THEN i
    ELSE FindFrom(name, list_of_dicts, i + 1)

find_dict(name, list_of_dicts) == FindFrom(name, list_of_dicts, 1)

get_attribute(attribute, instance) ==
    LET i == find_dict(attribute, instance.attributes)
    IN  IF i # 0 THEN instance.attributes[i].value ELSE "None"

IntegerValue(name, resources) ==
    resources[find_dict(name, resources)].integerValue

get_instance_info(instance) ==
    ("instance-type" :> get_attribute("ecs.instance-type", instance))
    @@ ("remaining_cpu" :> IntegerValue("CPU", instance.remainingResources))
    @@ ("remaining_memory" :>
            IntegerValue("MEMORY", instance.remainingResources))
    @@ ("total_cpu" :> IntegerValue("CPU", instance.registeredResources))
    @@ ("total_memory" :>
            IntegerValue("MEMORY", instance.registeredResources))

\* add_to_running_total with remaining_memory fed from remaining_cpu
add_to_running_total_cpu_twice(info, total) ==
    ("instance-type" :> info["instance-type"])
    @@ ("instance-count" :> Get(total, "instance-count", 0) + 1)
    @@ ("remaining_cpu" :>
            Get(total, "remaining_cpu", 0) + info["remaining_cpu"])
    @@ ("remaining_memory" :>
            Get(total, "remaining_memory", 0) + info["remaining_cpu"])
    @@ ("total_cpu" :> Get(total, "total_cpu", 0) + info["total_cpu"])
    @@ ("total_memory" :> Get(total, "total_memory", 0) + info["total_memory"])

add_to_running_total(info, total) ==
    ("instance-type" :> info["instance-type"])
    @@ ("instance-count" :> Get(total, "instance-count", 0) + 1)
    @@ ("remaining_cpu" :>
            Get(total, "remaining_cpu", 0) + info["remaining_cpu"])
    @@ ("remaining_memory" :>
            Get(total, "remaining_memory", 0) + info["remaining_memory"])
    @@ ("total_cpu" :> Get(total, "total_cpu", 0) + info["total_cpu"])
    @@ ("total_memory" :> Get(total, "total_memory", 0) + info["total_memory"])

\* get_container_stats, the loop over the described instances from index i.
\* The pages of the paginator are folded one after the other into the same
\* running total, so `instances` is their concatenation.
RECURSIVE FoldInstances(_, _, _)
FoldInstances(instances, i, running_total) ==
    IF i > Len(instances) THEN running_total
    ELSE FoldInstances(instances, i + 1,
            add_to_running_total(get_instance_info(instances[i]),
                                 running_total))

get_container_stats(instances) == FoldInstances(instances, 1, EmptyDict)

\* a container instance as describe_container_instances returns it
Instance(type, remaining_cpu, remaining_memory, total_cpu, total_memory) ==
    [attributes |-> <<[name |-> "ecs.ami-id", value |-> "ami-1"],
                      [name |-> "ecs.instance-type", value |-> type]>>,
     remainingResources |->
        <<[name |-> "CPU", integerValue |-> remaining_cpu],
          [name |-> "MEMORY", integerValue |-> remaining_memory]>>,
     registeredResources |->
        <<[name |-> "CPU", integerValue |-> total_cpu],
          [name |-> "MEMORY", integerValue |-> total_memory]>>]

\* all sequences over S of length at most n
BoundedSeq(S, n) == UNION {[1..k -> S] : k \in 0..n}

(***************************************************************************)
(* Price cache.  A price list entry carries the two things the code reads: *)
(* product.attributes.usagetype (its kind and its instance type) and the   *)
(* USD price of the first dimension of the first on-demand term, None      *)
(* where the entry has none.  A list price is counted in 1/10000 USD and a *)
(* discount in percent, so float(list_price) * (1 - discount) is           *)
(* list_price * (100 - discount) in 1/1000000 USD.                         *)
(* Each function takes the cache and the response of client.get_products   *)
(* and yields the outcome, the returned price and the cache afterwards.    *)
(***************************************************************************)

Discounted(list_price, discount) == list_price * (100 - discount)

\* usage_type.endswith('UnusedBox:{}'.format(instance_type))
EndsWithUnusedBox(usage_type, instance_type) ==
    usage_type.kind = "UnusedBox" /\ usage_type.type = instance_type

\* the loop over the price list from index i: the first entry of the usage
\* type that has a list price (its index, 0 when the loop ends without one)
RECURSIVE PriceLoop(_, _, _)
PriceLoop(pricelist, i, instance_type) ==
    IF i > Len(pricelist) THEN 0
    ELSE IF /\ EndsWithUnusedBox(pricelist[i].usagetype, instance_type)
            /\ pricelist[i].usd # None
         THEN i
         ELSE PriceLoop(pricelist, i + 1, instance_type)

\* get_ec2_price with `if price:` in place of `if price is not None:`
get_ec2_price_truthy(instance_type, aws_discount, region, history, response) ==
    IF Get(history, instance_type, None) \notin {None, 0}
    THEN [outcome |-> "hit", price |-> history[instance_type],
          history |-> history]
    ELSE IF region \notin REGION_MAP
    THEN [outcome |-> "KeyError", price |-> None, history |-> history]
    ELSE IF ~response.ok
    THEN [outcome |-> "ClientError", price |-> None, history |-> history]
    ELSE LET i == PriceLoop(response.PriceList, 1, instance_type)
             price == Discounted(response.PriceList[i].usd, aws_discount)
         IN  IF i # 0
             THEN [outcome |-> "queried", price |-> price,
                   history |-> Put(history, instance_type, price)]
             ELSE [outcome |-> "queried", price |-> None,
                   history |-> history]

get_ec2_price(instance_type, aws_discount, region, history, response) ==
    IF Get(history, instance_type, None) # None
    THEN [outcome |-> "hit", price |-> history[instance_type],
          history |-> history]
    ELSE IF region \notin REGION_MAP
    THEN [outcome |-> "KeyError", price |-> None, history |-> history]
    ELSE IF ~response.ok
    THEN [outcome |-> "ClientError", price |-> None, history |-> history]
    ELSE LET i == PriceLoop(response.PriceList, 1, instance_type)
             price == Discounted(response.PriceList[i].usd, aws_discount)
         IN  IF i # 0
             THEN [outcome |-> "queried", price |-> price,
                   history |-> Put(history, instance_type, price)]
             ELSE [outcome |-> "queried", price |-> None,
                   history |-> history]

\* get_fargate_cpu_price without the `if pricelist:` guard: pricelist[0]
\* raises IndexError on an empty list
get_fargate_cpu_price_unguarded(fargate_discount, region, history, response) ==
    IF Get(history, "fargate_cpu", None) # None
    THEN [outcome |-> "hit", price |-> history["fargate_cpu"],
          history |-> history]
    ELSE IF region \notin REGION_MAP
    THEN [outcome |-> "KeyError", price |-> None, history |-> history]
    ELSE IF ~response.ok
    THEN [outcome |-> "ClientError", price |-> None, history |-> history]
    ELSE IF response.PriceList = <<>>
    THEN [outcome |-> "IndexError", price |-> None, history |-> history]
    ELSE LET price == Discounted(response.PriceList[1].usd, fargate_discount)
         IN  IF response.PriceList[1].usd # None
             THEN [outcome |-> "queried", price |-> price,
                   history |-> Put(history, "fargate_cpu", price)]
             ELSE [outcome |-> "queried", price |-> None,
                   history |-> history]

get_fargate_cpu_price(fargate_discount, region, history, response) ==
    IF Get(history, "fargate_cpu", None) # None
    THEN [outcome |-> "hit", price |-> history["fargate_cpu"],
          history |-> history]
    ELSE IF region \notin REGION_MAP
    THEN [outcome |-> "KeyError", price |-> None, history |-> history]
    ELSE IF ~response.ok
    THEN [outcome |-> "ClientError", price |-> None, history |-> history]
    ELSE LET pricelist == response.PriceList
             price == Discounted(pricelist[1].usd, fargate_discount)
         IN  IF pricelist # <<>> /\ pricelist[1].usd # None
             THEN [outcome |-> "queried", price |-> price,
                   history |-> Put(history, "fargate_cpu", price)]
             ELSE [outcome |-> "queried", price |-> None,
                   history |-> history]

get_fargate_memory_price(fargate_discount, region, history, response) ==
    IF Get(history, "fargate_memory", None) # None
    THEN [outcome |-> "hit", price |-> history["fargate_memory"],
          history |-> history]
    ELSE IF region \notin REGION_MAP
    THEN [outcome |-> "KeyError", price |-> None, history |-> history]
    ELSE IF ~response.ok
    THEN [outcome |-> "ClientError", price |-> None, history |-> history]
    ELSE LET pricelist == response.PriceList
             price == Discounted(pricelist[1].usd, fargate_discount)
         IN  IF pricelist # <<>> /\ pricelist[1].usd # None
             THEN [outcome |-> "queried", price |-> price,
                   history |-> Put(history, "fargate_memory", price)]
             ELSE [outcome |-> "queried", price |-> None,
                   history |-> history]

\* what one call of a price function leaves in last_lookups: the key, how
\* the call ended, the price it returned and whether get_products answered
\* with an empty price list
LogEntry(key, looked, response) ==
    [key |-> key, outcome |-> looked.outcome, price |-> looked.price,
     nomatch |-> /\ looked.outcome \notin {"hit", "KeyError"}
                 /\ response.ok
                 /\ response.PriceList = <<>>]

\* the call raised instead of returning
Raised(looked) == looked.outcome \notin {"hit", "queried"}

\* pricing_queries after that call: get_products was called unless the
\* cache had the price or REGION_MAP[region] raised
Counted(queries, key, looked) ==
    IF looked.outcome \notin {"hit", "KeyError"}
    THEN Put(queries, key, Get(queries, key, 0) + 1)
    ELSE queries

(***************************************************************************)
(* Service sizing                                                          *)
(***************************************************************************)

\* container.get('memory', container.get('memoryReservation'))
ContainerMemory(container) ==
    Get(container, "memory", Get(container, "memoryReservation", None))

\* the loop of get_task_size over the containers from index i; adding None
\* to the memory raises TypeError
RECURSIVE SumContainers(_, _, _, _)
SumContainers(containers, i, cpu, memory) ==
    IF i > Len(containers)
    THEN [raised |-> FALSE, cpu |-> cpu, memory |-> memory]
    ELSE IF ContainerMemory(containers[i]) = None
    THEN [raised |-> TRUE, cpu |-> cpu, memory |-> memory]
    ELSE SumContainers(containers, i + 1, cpu + containers[i]["cpu"],
                       memory + ContainerMemory(containers[i]))

\* get_task_size; `containers` is what describe_task_definition returns for
\* task_def.  calls: the ECS calls made.
get_task_size(task_def, containers, cpu_fudge_factor) ==
    IF task_def = "None"
    THEN [raised |-> FALSE, calls |-> 0, value |-> EmptyDict]
    ELSE LET sum == SumContainers(containers, 1, 0, 0)
             adjusted == adjust_task_size(sum.cpu, sum.memory,
                                          cpu_fudge_factor)
         IN  IF sum.raised
             THEN [raised |-> TRUE, calls |-> 1, value |-> EmptyDict]
             ELSE [raised |-> FALSE, calls |-> 1,
                   value |-> ("vcpu" :> adjusted[1]) @@ ("GB" :> adjusted[2])
                             @@ ("cpu" :> sum.cpu) @@ ("mem" :> sum.memory)]

\* get_service_info without its `if running == 0: return {}`
get_service_info_sizes_idle(described, cpu_fudge_factor) ==
    IF described.services # <<>>
    THEN LET task_def == described.services[1].taskDefinition
             running == described.services[1].runningCount
             sized == get_task_size(task_def, described.containerDefinitions,
                                    cpu_fudge_factor)
         IN  IF sized.raised
             THEN [raised |-> TRUE, calls |-> 1 + sized.calls,
                   value |-> EmptyDict]
             ELSE [raised |-> FALSE, calls |-> 1 + sized.calls,
                   value |-> Put(sized.value, "running", running)]
    ELSE [raised |-> FALSE, calls |-> 1, value |-> EmptyDict]

\* get_service_info; `described` carries the response of describe_services
\* and the containers of the service's task definition
get_service_info(described, cpu_fudge_factor) ==
    IF described.services # <<>>
    THEN LET task_def == described.services[1].taskDefinition
             running == described.services[1].runningCount
             sized == get_task_size(task_def, described.containerDefinitions,
                                    cpu_fudge_factor)
         IN  IF running = 0
             THEN [raised |-> FALSE, calls |-> 1, value |-> EmptyDict]
             ELSE IF sized.raised
             THEN [raised |-> TRUE, calls |-> 1 + sized.calls,
                   value |-> EmptyDict]
             ELSE [raised |-> FALSE, calls |-> 1 + sized.calls,
                   value |-> Put(sized.value, "running", running)]
    ELSE [raised |-> FALSE, calls |-> 1, value |-> EmptyDict]

\* get_service_stats, the loop over service_list from index i
RECURSIVE ServiceLoop(_, _, _, _, _)
ServiceLoop(service_list, i, described, cpu_fudge_factor, acc) ==
    IF i > Len(service_list) THEN acc
    ELSE LET info == get_service_info(described[service_list[i]],
                                      cpu_fudge_factor)
         IN  IF info.raised
             THEN [raised |-> TRUE, calls |-> acc.calls + info.calls,
                   services |-> acc.services]
             ELSE ServiceLoop(service_list, i + 1, described,
                     cpu_fudge_factor,
                     [raised |-> FALSE, calls |-> acc.calls + info.calls,
                      services |-> Put(acc.services, service_list[i],
                                       info.value)])

get_service_stats(service_list, described, cpu_fudge_factor) ==
    ServiceLoop(service_list, 1, described, cpu_fudge_factor,
                [raised |-> FALSE, calls |-> 1, services |-> EmptyDict])

(***************************************************************************)
(* main(): what the remote services may answer, and the steps of the run   *)
(***************************************************************************)

MaxContainers == 2
MaxEntries == 1

\* region codes given on the command line (parse_args lower-cases them)
Regions == {"us-east-1", "mars-1"}
CpuFudges == {100, 125}
DefaultArgs ==
    [region |-> "us-east-1", cpu_fudge |-> 100, aws_discount |-> 23,
     fargate_discount |-> 33]

\* an ARN is the sequence of its '/'-separated parts; the last one tells the
\* ARNs of one account and region apart, and orders them
ClusterArns == {<<"arn:cluster", 1>>, <<"arn:cluster", 2>>}
\* list_clusters answers with no cluster, one, or both
ClusterLists == {<<>>, <<<<"arn:cluster", 1>>>>,
                 <<<<"arn:cluster", 1>>, <<"arn:cluster", 2>>>>}
ServiceArns(cluster) == {<<"arn:service", cluster[2], 1>>}
Injective(seq) == \A i, j \in DOMAIN seq : seq[i] = seq[j] => i = j
ListsOf(S) == {l \in BoundedSeq(S, Cardinality(S)) : Injective(l)}

InstanceRecords ==
    {Instance("m5.xlarge", 2048, 4096, 4096, 8192),
     Instance("c5.large", 1024, 512, 2048, 4096)}

\* the instances of one cluster: none, one, or two of different types
InstanceLists ==
    {<<>>,
     <<Instance("m5.xlarge", 2048, 4096, 4096, 8192)>>,
     <<Instance("m5.xlarge", 2048, 4096, 4096, 8192),
       Instance("c5.large", 1024, 512, 2048, 4096)>>}

\* container definitions: one with a hard limit and a reservation, one with
\* a reservation only, one with neither
ContainerDefs ==
    <<[cpu |-> 128, memory |-> 2560, memoryReservation |-> 512],
      [cpu |-> 4096, memoryReservation |-> 8192],
      [cpu |-> 256]>>

\* the container lists of a task definition, up to n containers; the sums
\* of get_task_size do not depend on the order of a list, so each
\* combination of definitions is listed in one order
ContainerLists(n) ==
    {[i \in DOMAIN ix |-> ContainerDefs[ix[i]]] :
        ix \in {jx \in BoundedSeq(DOMAIN ContainerDefs, n) :
                   \A i, j \in DOMAIN jx : i < j => jx[i] <= jx[j]}}

\* describe_services and describe_task_definition for one service
Descriptions ==
    {[services |-> <<>>, containerDefinitions |-> <<>>]}
    \cup {[services |-> <<[taskDefinition |-> t, runningCount |-> 0]>>,
           containerDefinitions |-> <<>>] : t \in {"None", "td:1"}}
    \cup {[services |-> <<[taskDefinition |-> "None", runningCount |-> 2]>>,
           containerDefinitions |-> <<>>]}
    \cup {[services |-> <<[taskDefinition |-> "td:1", runningCount |-> 2]>>,
           containerDefinitions |-> c] :
          c \in ContainerLists(MaxContainers)}

\* get_products: a failed call, or a price list
Ec2Entries(instance_type) ==
    {[usagetype |-> [kind |-> "BoxUsage", type |-> instance_type],
      usd |-> 960],
     [usagetype |-> [kind |-> "UnusedBox", type |-> instance_type],
      usd |-> None],
     [usagetype |-> [kind |-> "UnusedBox", type |-> instance_type],
      usd |-> 960]}
FargateEntries ==
    {[usagetype |-> [kind |-> "Fargate", type |-> "None"], usd |-> None],
     [usagetype |-> [kind |-> "Fargate", type |-> "None"], usd |-> 405]}
Responses(entries) ==
    {[ok |-> FALSE, PriceList |-> <<>>]}
    \cup {[ok |-> TRUE, PriceList |-> l] : l \in BoundedSeq(entries, MaxEntries)}

\* the responses to a lookup of a key: get_products is called, and answers,
\* only if the cache has no price for the key and the region is mapped
NoResponse == [ok |-> FALSE, PriceList |-> <<>>]
ResponsesFor(key, history, region, entries) ==
    IF Get(history, key, None) # None \/ region \notin REGION_MAP
    THEN {NoResponse}
    ELSE Responses(entries)

\* sorted(d.items()) visits the keys in ascending order
SortedArns(S) ==
    LET keys == SortedSeq({a[Len(a)] : a \in S})
    IN  [i \in 1..Len(keys) |-> CHOOSE a \in S : a[Len(a)] = keys[i]]

\* the (cluster, service) pairs in the order create_fargate_sheet visits them
RECURSIVE FargateItemsFrom(_, _, _)
FargateItemsFrom(cluster_info, sorted_clusters, i) ==
    IF i > Len(sorted_clusters) THEN <<>>
    ELSE LET cluster == sorted_clusters[i]
             services == SortedArns(DOMAIN cluster_info[cluster])
         IN  [j \in 1..Len(services) |-> <<cluster, services[j]>>]
             \o FargateItemsFrom(cluster_info, sorted_clusters, i + 1)

FargateItems(cluster_info) ==
    FargateItemsFrom(cluster_info, SortedArns(DOMAIN cluster_info), 1)

Init ==
    /\ args \in [region : Regions, cpu_fudge : CpuFudges,
                 aws_discount : {DefaultArgs.aws_discount},
                 fargate_discount : {DefaultArgs.fargate_discount}]
    /\ pc = "list_clusters"
    /\ pos = 0
    /\ clusters = <<>>
    /\ cluster_ec2_totals = EmptyDict
    /\ cluster_ecs_totals = EmptyDict
    /\ price_history = EmptyDict
    /\ ec2_sheet = <<>>
    /\ fargate_sheet = <<>>
    /\ output_file = FALSE
    /\ ecs_calls = 0
    /\ pricing_queries = EmptyDict
    /\ last_lookups = <<>>
    /\ task_defs = EmptyDict
    /\ service_descs = EmptyDict
    /\ normIn = <<>>
    /\ normOut = <<>>
    /\ aggIn = <<>>
    /\ aggTotal = EmptyDict
    /\ aggPos = 0
    /\ priceCall = EmptyDict
    /\ priceCalls = 0

\* the for loop over clusters: its body again, or on to the sheets
LoopOrSheets(p, cluster_list) ==
    IF p < Len(cluster_list) THEN "container_stats" ELSE "ec2_sheet"

\* main, lines 610-616: the workbook object, the client, get_cluster_list
GetClusterList ==
    /\ pc = "list_clusters"
    /\ \E cluster_list \in ClusterLists :
        /\ clusters' = cluster_list
        /\ pc' = LoopOrSheets(0, cluster_list)
    /\ ecs_calls' = ecs_calls + 1
    /\ UNCHANGED <<args, pos, cluster_ec2_totals, cluster_ecs_totals,
                   price_history, ec2_sheet, fargate_sheet, output_file,
                   pricing_queries, last_lookups, task_defs,
                   service_descs>>

\* main, line 623: get_container_stats for the next cluster
GetContainerStats ==
    /\ pc = "container_stats"
    /\ \E instances \in InstanceLists :
        /\ cluster_ec2_totals' =
              Put(cluster_ec2_totals, clusters[pos + 1],
                  get_container_stats(instances))
        /\ ecs_calls' = ecs_calls + (IF instances = <<>> THEN 1 ELSE 2)
    /\ pc' = "service_stats"
    /\ UNCHANGED <<args, pos, clusters, cluster_ecs_totals, price_history,
                   ec2_sheet, fargate_sheet, output_file, pricing_queries,
                   last_lookups, task_defs,
                   service_descs>>

\* main, line 624: get_service_stats for the same cluster; a TypeError in
\* get_task_size ends the run
GetServiceStats ==
    /\ pc = "service_stats"
    /\ \E cluster \in {clusters[pos + 1]} :
       \E service_list \in ListsOf(ServiceArns(cluster)) :
       \E described \in [{service_list[i] : i \in DOMAIN service_list}
                            -> Descriptions] :
       \E stats \in {get_service_stats(service_list, described,
                                       args.cpu_fudge)} :
             /\ ecs_calls' = ecs_calls + stats.calls
             /\ IF stats.raised
                THEN /\ pc' = "failed"
                     /\ UNCHANGED <<pos, cluster_ecs_totals, task_defs,
                                    service_descs>>
                ELSE /\ cluster_ecs_totals' =
                          Put(cluster_ecs_totals, cluster, stats.services)
                     /\ task_defs' =
                          [s \in DOMAIN described |->
                              described[s].containerDefinitions] @@ task_defs
                     /\ service_descs' =
                          [s \in DOMAIN described |->
                              described[s].services] @@ service_descs
                     /\ pos' = IF pos + 1 < Len(clusters) THEN pos + 1 ELSE 0
                     /\ pc' = LoopOrSheets(pos + 1, clusters)
    /\ UNCHANGED <<args, clusters, cluster_ec2_totals, price_history,
                   ec2_sheet, fargate_sheet, output_file, pricing_queries,
                   last_lookups>>

\* a call on the ECS client raises: nothing catches it
EcsCallFails ==
    /\ pc \in {"list_clusters", "container_stats", "service_stats"}
    /\ pc' = "failed"
    /\ ecs_calls' = ecs_calls + 1
    /\ UNCHANGED <<args, pos, clusters, cluster_ec2_totals,
                   cluster_ecs_totals, price_history, ec2_sheet,
                   fargate_sheet, output_file, pricing_queries, last_lookups,
                   task_defs,
                   service_descs>>

\* create_ec2_sheet, one turn of its loop: a cluster without totals is
\* skipped, any other gets a row with the price of its instance type
Ec2SheetRow ==
    /\ pc = "ec2_sheet"
    /\ pos < Cardinality(DOMAIN cluster_ec2_totals)
    /\ \E cluster \in {SortedArns(DOMAIN cluster_ec2_totals)[pos + 1]} :
       \E totals \in {cluster_ec2_totals[cluster]} :
           IF DOMAIN totals = {}
           THEN /\ pos' = pos + 1
                /\ last_lookups' = <<>>
                /\ UNCHANGED <<pc, price_history, ec2_sheet, pricing_queries>>
           ELSE \E response \in ResponsesFor(totals["instance-type"],
                                      price_history, args.region,
                                      Ec2Entries(totals["instance-type"])) :
                \E looked \in {get_ec2_price(totals["instance-type"],
                                  args.aws_discount, args.region,
                                  price_history, response)} :
                    /\ last_lookups' =
                          <<LogEntry(totals["instance-type"], looked,
                                     response)>>
                    /\ pricing_queries' =
                          Counted(pricing_queries, totals["instance-type"],
                                  looked)
                    /\ price_history' = looked.history
                    /\ IF Raised(looked)
                       THEN /\ pc' = "failed"
                            /\ UNCHANGED <<pos, ec2_sheet>>
                       ELSE /\ ec2_sheet' = Append(ec2_sheet,
                                 [cluster |-> cluster[2],
                                  instance_type |-> totals["instance-type"],
                                  instance_count |-> totals["instance-count"],
                                  price |-> looked.price,
                                  remaining_cpu |-> totals["remaining_cpu"],
                                  total_cpu |-> totals["total_cpu"],
                                  remaining_memory |->
                                      totals["remaining_memory"],
                                  total_memory |-> totals["total_memory"]])
                            /\ pos' = pos + 1
                            /\ pc' = pc
    /\ UNCHANGED <<args, clusters, cluster_ec2_totals, cluster_ecs_totals,
                   fargate_sheet, output_file, ecs_calls, task_defs,
                   service_descs>>

\* create_ec2_sheet returns; create_fargate_sheet starts
Ec2SheetDone ==
    /\ pc = "ec2_sheet"
    /\ pos = Cardinality(DOMAIN cluster_ec2_totals)
    /\ pc' = "fargate_sheet"
    /\ pos' = 0
    /\ last_lookups' = <<>>
    /\ UNCHANGED <<args, clusters, cluster_ec2_totals, cluster_ecs_totals,
                   price_history, ec2_sheet, fargate_sheet, output_file,
                   ecs_calls, pricing_queries, task_defs,
                   service_descs>>

\* create_fargate_sheet, one turn of its inner loop.  The cells are
\* evaluated in order: value['cpu'] raises KeyError for a service_info that
\* has only 'running'; then the CPU price, then the memory price.
FargateSheetRow ==
    /\ pc = "fargate_sheet"
    /\ \E items \in {FargateItems(cluster_ecs_totals)} :
       /\ pos < Len(items)
       /\ \E item \in {items[pos + 1]} :
          \E value \in {cluster_ecs_totals[item[1]][item[2]]} :
           IF ~(Get(value, "running", 0) > 0)
           THEN /\ pos' = pos + 1
                /\ last_lookups' = <<>>
                /\ UNCHANGED <<pc, price_history, fargate_sheet,
                               pricing_queries>>
           ELSE IF "cpu" \notin DOMAIN value
           THEN /\ pc' = "failed"
                /\ last_lookups' = <<>>
                /\ UNCHANGED <<pos, price_history, fargate_sheet,
                               pricing_queries>>
           ELSE \E cpu_response \in ResponsesFor("fargate_cpu", price_history,
                                          args.region, FargateEntries) :
                \E cpu_looked \in {get_fargate_cpu_price(
                                      args.fargate_discount, args.region,
                                      price_history, cpu_response)} :
                \E cpu_entry \in {LogEntry("fargate_cpu", cpu_looked,
                                           cpu_response)} :
                \E cpu_counted \in {Counted(pricing_queries, "fargate_cpu",
                                            cpu_looked)} :
                    IF Raised(cpu_looked)
                    THEN /\ last_lookups' = <<cpu_entry>>
                         /\ pricing_queries' = cpu_counted
                         /\ pc' = "failed"
                         /\ UNCHANGED <<pos, price_history, fargate_sheet>>
                    ELSE
                \E mem_response \in ResponsesFor("fargate_memory",
                                      cpu_looked.history, args.region,
                                      FargateEntries) :
                \E mem_looked \in {get_fargate_memory_price(
                                      args.fargate_discount, args.region,
                                      cpu_looked.history, mem_response)} :
                    /\ last_lookups' =
                          <<cpu_entry, LogEntry("fargate_memory", mem_looked,
                                                mem_response)>>
                    /\ pricing_queries' =
                          Counted(cpu_counted, "fargate_memory", mem_looked)
                    /\ price_history' = mem_looked.history
                    /\ IF Raised(mem_looked)
                       THEN /\ pc' = "failed"
                            /\ UNCHANGED <<pos, fargate_sheet>>
                       ELSE /\ fargate_sheet' = Append(fargate_sheet,
                                 [cluster |-> item[1][2],
                                  service |-> item[2][Len(item[2])],
                                  running |-> value["running"],
                                  cpu |-> value["cpu"],
                                  mem |-> value["mem"],
                                  vcpu |-> value["vcpu"],
                                  GB |-> value["GB"],
                                  cpu_price |-> cpu_looked.price,
                                  mem_price |-> mem_looked.price])
                            /\ pos' = pos + 1
                            /\ pc' = pc
    /\ UNCHANGED <<args, clusters, cluster_ec2_totals, cluster_ecs_totals,
                   ec2_sheet, output_file, ecs_calls, task_defs,
                   service_descs>>

\* what create_fargate_sheet returns: row + 1
FargateRowCount == Len(fargate_sheet) + 1

\* create_fargate_sheet returns
FargateSheetDone ==
    /\ pc = "fargate_sheet"
    /\ pos = Len(FargateItems(cluster_ecs_totals))
    /\ pc' = "finish"
    /\ pos' = 0
    /\ last_lookups' = <<>>
    /\ UNCHANGED <<args, clusters, cluster_ec2_totals, cluster_ecs_totals,
                   price_history, ec2_sheet, fargate_sheet, output_file,
                   ecs_calls, pricing_queries, task_defs,
                   service_descs>>

\* main, lines 633-637: the comparison sheet and the charts are built from
\* what is in memory, and workbook.close() writes the file
CloseWorkbook ==
    /\ pc = "finish"
    /\ output_file' = TRUE
    /\ pc' = "done"
    /\ UNCHANGED <<args, pos, clusters, cluster_ec2_totals,
                   cluster_ecs_totals, price_history, ec2_sheet,
                   fargate_sheet, ecs_calls, pricing_queries, last_lookups,
                   task_defs,
                   service_descs>>

Next ==
    \/ (GetClusterList /\ UNCHANGED <<normVars, aggVars, cacheVars>>)
    \/ (GetContainerStats /\ UNCHANGED <<normVars, aggVars, cacheVars>>)
    \/ (GetServiceStats /\ UNCHANGED <<normVars, aggVars, cacheVars>>)
    \/ (EcsCallFails /\ UNCHANGED <<normVars, aggVars, cacheVars>>)
    \/ (Ec2SheetRow /\ UNCHANGED <<normVars, aggVars, cacheVars>>)
    \/ (Ec2SheetDone /\ UNCHANGED <<normVars, aggVars, cacheVars>>)
    \/ (FargateSheetRow /\ UNCHANGED <<normVars, aggVars, cacheVars>>)
    \/ (FargateSheetDone /\ UNCHANGED <<normVars, aggVars, cacheVars>>)
    \/ (CloseWorkbook /\ UNCHANGED <<normVars, aggVars, cacheVars>>)

Spec == Init /\ [][Next]_vars

(***************************************************************************)
(* The size normaliser on its own: adjust_task_size applied to two         *)
(* requests, so that its results can be compared.                          *)
(***************************************************************************)

\* cpu_fudge from parse_args, 1 + pct / 100, in hundredths
FudgeFactors == {100, 105, 125, 150, 200}

\* the requests on both sides of every place where a test of the catalog
\* changes its answer
AllOptions == UNION {{FARGATE_SIZES[k][i] : i \in 1..Len(FARGATE_SIZES[k])} :
                     k \in DOMAIN FARGATE_SIZES}
CpuEdge(cpu, f) == (cpu * 1024 * f) \div 400
NormCpus(F, D) ==
    {0} \cup UNION {{CpuEdge(k, f) + d : d \in D} :
                    <<k, f>> \in (DOMAIN FARGATE_SIZES) \X F}
NormMems == UNION {{m * 512 - 1, m * 512} : m \in AllOptions}

Request(c, m, f) == [cpu |-> c, mem |-> m, fudge |-> f]

\* two requests at fudge 1.0, the second larger in cpu and in memory
OrderedPairs ==
    {<<Request(c1, m1, 100), Request(c2, m2, 100)>> :
        <<c1, c2, m1, m2>> \in
            {q \in NormCpus({100}, {-1, 0}) \X NormCpus({100}, {-1, 0})
                   \X NormMems \X NormMems :
                q[1] < q[2] /\ q[3] < q[4]}}

\* one request under two fudge factors, the second larger
FudgePairs ==
    {<<Request(c, m, f[1]), Request(c, m, f[2])>> :
        <<c, m, f>> \in NormCpus(FudgeFactors, {-1, 0, 1}) \X NormMems \X
                        {g \in FudgeFactors \X FudgeFactors : g[1] < g[2]}}

SizeOf(req) == adjust_task_size(req.cpu, req.mem, req.fudge)

\* the run's variables while main() is not being run
RunIdle ==
    /\ args = DefaultArgs
    /\ pc = "list_clusters"
    /\ pos = 0
    /\ clusters = <<>>
    /\ cluster_ec2_totals = EmptyDict
    /\ cluster_ecs_totals = EmptyDict
    /\ price_history = EmptyDict
    /\ ec2_sheet = <<>>
    /\ fargate_sheet = <<>>
    /\ output_file = FALSE
    /\ ecs_calls = 0
    /\ pricing_queries = EmptyDict
    /\ last_lookups = <<>>
    /\ task_defs = EmptyDict
    /\ service_descs = EmptyDict

InitNorm ==
    /\ normIn \in OrderedPairs \cup FudgePairs
    /\ normOut = <<>>
    /\ aggIn = <<>>
    /\ aggTotal = EmptyDict
    /\ aggPos = 0
    /\ priceCall = EmptyDict
    /\ priceCalls = 0
    /\ RunIdle

Normalize ==
    /\ normOut = <<>>
    /\ normOut' = <<SizeOf(normIn[1]), SizeOf(normIn[2])>>
    /\ UNCHANGED <<normIn, runVars, aggVars, cacheVars>>

NextNorm == Normalize

SpecNorm == InitNorm /\ [][NextNorm]_vars

(***************************************************************************)
(* The aggregation on its own: the records of one cluster folded into the  *)
(* running total one at a time, as the loop of get_container_stats does.   *)
(***************************************************************************)

MaxAggLen == 3

AggRecords ==
    InstanceRecords
    \cup {Instance("m5.xlarge", 0, 8192, 4096, 8192),
          Instance("t3.small", 7, 11, 2048, 2000)}

InitAgg ==
    /\ aggIn \in BoundedSeq(AggRecords, MaxAggLen)
    /\ aggTotal = EmptyDict
    /\ aggPos = 0
    /\ priceCall = EmptyDict
    /\ priceCalls = 0
    /\ normIn = <<>>
    /\ normOut = <<>>
    /\ priceCall = EmptyDict
    /\ priceCalls = 0
    /\ RunIdle

AddToRunningTotal ==
    /\ aggPos < Len(aggIn)
    /\ aggTotal' = add_to_running_total(get_instance_info(aggIn[aggPos + 1]),
                                        aggTotal)
    /\ aggPos' = aggPos + 1
    /\ UNCHANGED <<aggIn, runVars, normVars, cacheVars>>

NextAgg == AddToRunningTotal

SpecAgg == InitAgg /\ [][NextAgg]_vars

(***************************************************************************)
(* The price functions on their own: a series of calls on the three        *)
(* lookups that share price_history, with any discount and region.         *)
(***************************************************************************)

MaxPriceCalls == 3

\* discounts given on the command line, in percent
Discounts == {DefaultArgs.aws_discount, 100}
InstanceTypes == {"m5.xlarge", "c5.large"}

Ec2Calls ==
    [fn : {"get_ec2_price"}, key : InstanceTypes, discount : Discounts,
     region : Regions]
FargateCalls(fn, key) ==
    [fn : {fn}, key : {key}, discount : Discounts, region : Regions]

\* the latest call raised: the caller does not catch it
PriceCallRaised ==
    last_lookups # <<>> /\ last_lookups[1].outcome \notin {"hit", "queried"}

InitCache ==
    /\ RunIdle
    /\ priceCall = EmptyDict
    /\ priceCalls = 0
    /\ normIn = <<>>
    /\ normOut = <<>>
    /\ aggIn = <<>>
    /\ aggTotal = EmptyDict
    /\ aggPos = 0

\* what a call of a price function leaves behind
AfterPriceCall(call, looked, response) ==
    /\ priceCall' = call
    /\ priceCalls' = priceCalls + 1
    /\ last_lookups' = <<LogEntry(call.key, looked, response)>>
    /\ pricing_queries' = Counted(pricing_queries, call.key, looked)
    /\ price_history' = looked.history
    /\ UNCHANGED <<args, pc, pos, clusters, cluster_ec2_totals,
                   cluster_ecs_totals, ec2_sheet, fargate_sheet, output_file,
                   ecs_calls, task_defs, service_descs, normVars, aggVars>>

Ec2PriceCall ==
    /\ priceCalls < MaxPriceCalls /\ ~PriceCallRaised
    /\ \E call \in Ec2Calls :
       \E response \in ResponsesFor(call.key, price_history, call.region,
                                    Ec2Entries(call.key)) :
          AfterPriceCall(call,
              get_ec2_price(call.key, call.discount, call.region,
                            price_history, response),
              response)

FargateCpuPriceCall ==
    /\ priceCalls < MaxPriceCalls /\ ~PriceCallRaised
    /\ \E call \in FargateCalls("get_fargate_cpu_price", "fargate_cpu") :
       \E response \in ResponsesFor(call.key, price_history, call.region,
                                    FargateEntries) :
          AfterPriceCall(call,
              get_fargate_cpu_price(call.discount, call.region,
                                    price_history, response),
              response)

FargateMemoryPriceCall ==
    /\ priceCalls < MaxPriceCalls /\ ~PriceCallRaised
    /\ \E call \in FargateCalls("get_fargate_memory_price",
                                 "fargate_memory") :
       \E response \in ResponsesFor(call.key, price_history, call.region,
                                    FargateEntries) :
          AfterPriceCall(call,
              get_fargate_memory_price(call.discount, call.region,
                                       price_history, response),
              response)

NextCache ==
    \/ Ec2PriceCall
    \/ FargateCpuPriceCall
    \/ FargateMemoryPriceCall

SpecCache == InitCache /\ [][NextCache]_vars

(***************************************************************************)
(* Properties of the size normaliser (SpecNorm)                            *)
(***************************************************************************)

Normalized == normOut # <<>>
NotFittable == <<None, None>>

\* the normaliser has been applied to cpuUnits=1024, memMB=1024, fudge 1.0
BoundaryRequest == Normalized /\ normIn[1] = Request(1024, 1024, 100)

\* C1, as the spec states it: normalising cpuUnits=1024, memMB=1024 with
\* fudge 1.0 returns the tier vcpu=1 (4 quarters), memoryGB=2 (4 halves).
C1_BoundaryRollsToOneVcpuTwoGB ==
    BoundaryRequest => normOut[1] = <<4, 4>>

\* C1, amended: normalising cpuUnits=1024, memMB=1024 with fudge 1.0 returns
\* the tier vcpu=2 (8 quarters), memoryGB=4 (8 halves): the strict CPU test
\* rejects the 1-vcpu group as well, so the request rolls up to the 2-vcpu
\* group, whose first memory option is taken.
C1_BoundaryRollsToTwoVcpuFourGB ==
    BoundaryRequest => normOut[1] = <<8, 8>>

C1_Witness == BoundaryRequest /\ normOut[1] # NotFittable

\* two requests at fudge 1.0, the second larger in cpu and in memory, and a
\* tier returned for both
OrderedAndFitted ==
    /\ Normalized
    /\ normIn[1].fudge = 100 /\ normIn[2].fudge = 100
    /\ normIn[1].cpu < normIn[2].cpu
    /\ normIn[1].mem < normIn[2].mem
    /\ normOut[1] # NotFittable
    /\ normOut[2] # NotFittable

\* C4: for requirements (cpu1, mem1) and (cpu2, mem2) with cpu1 < cpu2 and
\* mem1 < mem2 that both get a tier at fudge 1.0, the tier of the first has
\* no more vcpu and no more memory than the tier of the second.
C4_TierMonotonicity ==
    OrderedAndFitted =>
        /\ normOut[1][1] <= normOut[2][1]
        /\ normOut[1][2] <= normOut[2][2]

C4_Witness ==
    /\ OrderedAndFitted
    /\ normOut[1][1] < normOut[2][1]
    /\ normOut[1][2] < normOut[2][2]

\* one requirement under two fudge factors f2 > f1 >= 1.0, with a tier
\* returned under f1
FudgeRaised ==
    /\ Normalized
    /\ normIn[1].cpu = normIn[2].cpu
    /\ normIn[1].mem = normIn[2].mem
    /\ 100 <= normIn[1].fudge
    /\ normIn[1].fudge < normIn[2].fudge
    /\ normOut[1] # NotFittable

\* C5: if adjust_task_size(cpu, mem, f1) returns a tier and f2 > f1 >= 1.0,
\* then adjust_task_size(cpu, mem, f2) returns a tier too, and its vcpu is
\* at most the vcpu returned for f1.
C5_FudgeMonotonicity ==
    FudgeRaised =>
        /\ normOut[2] # NotFittable
        /\ normOut[2][1] <= normOut[1][1]

C5_Witness == FudgeRaised /\ normOut[2][1] < normOut[1][1]

(***************************************************************************)
(* Properties of the aggregation (SpecAgg)                                 *)
(***************************************************************************)

\* the records folded into aggTotal so far
Folded == SubSeq(aggIn, 1, aggPos)

\* the sum over described instances of the integerValue of one resource
RECURSIVE SumOf(_, _, _)
SumOf(instances, resources, name) ==
    IF instances = <<>> THEN 0
    ELSE LET list == Head(instances)[resources]
             entry == CHOOSE e \in {list[i] : i \in DOMAIN list} :
                          e.name = name
         IN  entry.integerValue + SumOf(Tail(instances), resources, name)

NumericFields ==
    {"instance-count", "remaining_cpu", "total_cpu", "remaining_memory",
     "total_memory"}

\* the instance of the spec's example
ExampleInstance == Instance("m5.xlarge", 2048, 4096, 4096, 8192)

\* C6: after folding a sequence of instance records into a cluster total,
\* starting from the empty total, each of remaining_cpu, total_cpu,
\* remaining_memory and total_memory is the sum of that field over the
\* records and instance-count is the number of records; the total of [A, B]
\* is the field-wise sum of the totals of [A] and of [B]; two instances of
\* totalCpu=4096, totalMemory=8192, remainingCpu=2048, remainingMemory=4096
\* give 2, 8192, 4096, 16384, 8192.
C6_AggregationIsFieldWiseSum ==
    /\ aggPos = 0 => DOMAIN aggTotal = {}
    /\ aggPos > 0 =>
        /\ aggTotal["instance-count"] = aggPos
        /\ aggTotal["remaining_cpu"] =
              SumOf(Folded, "remainingResources", "CPU")
        /\ aggTotal["remaining_memory"] =
              SumOf(Folded, "remainingResources", "MEMORY")
        /\ aggTotal["total_cpu"] = SumOf(Folded, "registeredResources", "CPU")
        /\ aggTotal["total_memory"] =
              SumOf(Folded, "registeredResources", "MEMORY")
    /\ aggPos = 2 =>
        \A f \in NumericFields :
            aggTotal[f] = get_container_stats(<<aggIn[1]>>)[f]
                          + get_container_stats(<<aggIn[2]>>)[f]
    /\ (aggPos = 2 /\ Folded = <<ExampleInstance, ExampleInstance>>) =>
        /\ aggTotal["instance-count"] = 2
        /\ aggTotal["total_cpu"] = 8192
        /\ aggTotal["remaining_cpu"] = 4096
        /\ aggTotal["total_memory"] = 16384
        /\ aggTotal["remaining_memory"] = 8192

C6_Witness ==
    /\ aggPos = 2
    /\ Folded = <<ExampleInstance, ExampleInstance>>
    /\ aggTotal["total_memory"] = 16384

(***************************************************************************)
(* Properties of a run of main() (Spec)                                    *)
(***************************************************************************)

\* C2, as the spec states it: for every cache key, the price lookups of one
\* run issue at most one get_products query in total and all return the same
\* result, whatever the catalog answers.
C2_PriceCacheIdempotence ==
    /\ \A key \in DOMAIN pricing_queries : pricing_queries[key] <= 1
    /\ \A i, j \in DOMAIN ec2_sheet :
          ec2_sheet[i].instance_type = ec2_sheet[j].instance_type
              => ec2_sheet[i].price = ec2_sheet[j].price
    /\ \A i, j \in DOMAIN fargate_sheet :
          /\ fargate_sheet[i].cpu_price = fargate_sheet[j].cpu_price
          /\ fargate_sheet[i].mem_price = fargate_sheet[j].mem_price

\* the latest step failed because one of its price lookups raised
LookupRaised ==
    \E i \in DOMAIN last_lookups :
        last_lookups[i].outcome \notin {"hit", "queried"}

\* the price cell that the latest row got from a lookup of this key
LatestCell(key) ==
    IF key = "fargate_cpu"
    THEN fargate_sheet[Len(fargate_sheet)].cpu_price
    ELSE IF key = "fargate_memory"
    THEN fargate_sheet[Len(fargate_sheet)].mem_price
    ELSE ec2_sheet[Len(ec2_sheet)].price

\* C3: a lookup (EC2 instance type, Fargate CPU, Fargate memory) for which
\* get_products answers with no entries returns None and does not raise;
\* the run does not abort on its account (only when another lookup of the
\* same row raises), and the row is written with a blank (None) price cell.
C3_UnpricedPropagation ==
    \A i \in DOMAIN last_lookups :
        last_lookups[i].nomatch =>
            /\ last_lookups[i].outcome = "queried"
            /\ last_lookups[i].price = None
            /\ pc = "failed" => LookupRaised
            /\ pc # "failed" => LatestCell(last_lookups[i].key) = None

\* an EC2 row and then a Fargate row were written from unanswered lookups
C3_Witness ==
    /\ pc = "fargate_sheet"
    /\ Len(last_lookups) = 2
    /\ last_lookups[1].nomatch /\ last_lookups[2].nomatch
    /\ fargate_sheet # <<>>
    /\ fargate_sheet[Len(fargate_sheet)].cpu_price = None
    /\ fargate_sheet[Len(fargate_sheet)].mem_price = None
    /\ \E r \in DOMAIN ec2_sheet : ec2_sheet[r].price = None

\* the tiers of the catalog
Catalog ==
    {<<k, FARGATE_SIZES[k][i]>> :
        <<k, i>> \in {q \in (DOMAIN FARGATE_SIZES) \X (1..30) :
                        q[2] <= Len(FARGATE_SIZES[q[1]])}}

\* some tier (v, m) has cpu / 1024 < v * fudge and mem / 1024 < m
SomeTierFits(cpu, mem, fudge) ==
    \E t \in Catalog : cpu * 400 < t[1] * 1024 * fudge /\ mem < t[2] * 512

\* the services that get_task_size has sized
SizedServices ==
    {q \in UNION {{<<c, s>> : s \in DOMAIN cluster_ecs_totals[c]} :
                  c \in DOMAIN cluster_ecs_totals} :
        "vcpu" \in DOMAIN cluster_ecs_totals[q[1]][q[2]]}

InfoOf(q) == cluster_ecs_totals[q[1]][q[2]]

RowOf(q, i) ==
    /\ fargate_sheet[i].cluster = q[1][2]
    /\ fargate_sheet[i].service = q[2][Len(q[2])]

\* C7: the size recorded for a service is (None, None) exactly when no tier
\* (v, m) of the catalog has cpu < v * fudge and mem < m, and is a tier of
\* the catalog otherwise; the Fargate row of the service carries the same
\* vcpu and GB cells, null for a not-fittable size, and a run that reaches
\* its end has written that row.
C7_NotFittableIffNoTierFits ==
    /\ \A q \in SizedServices :
        /\ (InfoOf(q)["vcpu"] = None /\ InfoOf(q)["GB"] = None)
              <=> ~SomeTierFits(InfoOf(q)["cpu"], InfoOf(q)["mem"],
                                args.cpu_fudge)
        /\ InfoOf(q)["vcpu"] # None =>
              <<InfoOf(q)["vcpu"], InfoOf(q)["GB"]>> \in Catalog
        /\ \A i \in DOMAIN fargate_sheet :
              RowOf(q, i) =>
                  /\ fargate_sheet[i].vcpu = InfoOf(q)["vcpu"]
                  /\ fargate_sheet[i].GB = InfoOf(q)["GB"]
        /\ pc = "done" => \E i \in DOMAIN fargate_sheet : RowOf(q, i)

\* a finished run whose Fargate sheet has a row with null vcpu and GB cells
C7_Witness ==
    /\ pc = "done"
    /\ output_file
    /\ \E q \in SizedServices :
          /\ ~SomeTierFits(InfoOf(q)["cpu"], InfoOf(q)["mem"], args.cpu_fudge)
          /\ \E i \in DOMAIN fargate_sheet :
                /\ RowOf(q, i)
                /\ fargate_sheet[i].vcpu = None
                /\ fargate_sheet[i].GB = None

\* the sum of one key over the containers of a task definition
RECURSIVE SumKey(_, _)
SumKey(containers, key) ==
    IF containers = <<>> THEN 0
    ELSE Head(containers)[key] + SumKey(Tail(containers), key)

\* C8, as the spec states it: the requested CPU of a sized service is the
\* sum of its containers' cpu and the requested memory the sum of their
\* memoryReservation; a hard limit is never used in place of a reservation.
C8_SizingSumsReservations ==
    \A q \in SizedServices :
        LET containers == task_defs[q[2]]
        IN  /\ InfoOf(q)["cpu"] = SumKey(containers, "cpu")
            /\ (\A i \in DOMAIN containers :
                    "memoryReservation" \in DOMAIN containers[i])
                  => InfoOf(q)["mem"] = SumKey(containers, "memoryReservation")

\* C9, as the spec states it: a run whose region code is not in the region
\* table fails before any call to the cluster directory or to the pricing
\* catalog is issued.
C9_ConfigurationErrorBeforeRemoteCalls ==
    args.region \notin REGION_MAP =>
        /\ ecs_calls = 0
        /\ DOMAIN pricing_queries = {}

\* C10, as the spec states it: a run that hits a fatal error, an unmapped
\* region code among them, never produces the output file.
C10_NoOutputOnFatalError ==
    (args.region \notin REGION_MAP \/ pc = "failed") => ~output_file

\* the services that get_service_stats has recorded, as (cluster, service)
AllServices ==
    UNION {{<<c, s>> : s \in DOMAIN cluster_ecs_totals[c]} :
           c \in DOMAIN cluster_ecs_totals}

DescOf(q) == service_descs[q[2]]

\* describe_services answered for the service, with a runningCount above 0
IsRunning(q) == DescOf(q) # <<>> /\ DescOf(q)[1].runningCount > 0

\* the service has a task definition to describe
HasTaskDef(q) == DescOf(q) # <<>> /\ DescOf(q)[1].taskDefinition # "None"

RowsOf(q) == {i \in DOMAIN fargate_sheet : RowOf(q, i)}

SheetReturned == pc \in {"finish", "done"}

\* the rows of the Fargate sheet: none for a service that is not running or
\* could not be described, whose service_info stays empty; never two for one
\* service; and once the sheet is returned one for each running service,
\* the returned count being 1 + the number of running services
C11_Rows ==
    /\ \A q \in AllServices :
          /\ ~IsRunning(q) => (RowsOf(q) = {} /\ InfoOf(q) = EmptyDict)
          /\ Cardinality(RowsOf(q)) <= 1
          /\ (SheetReturned /\ IsRunning(q)) => Cardinality(RowsOf(q)) = 1
    /\ SheetReturned =>
          FargateRowCount = 1 + Cardinality({q \in AllServices : IsRunning(q)})

\* the ECS calls of one get_service_stats: list_services, describe_services
\* for each service, and describe_task_definition only for the running
\* services that have a task definition
C11_Calls ==
    (pc = "service_stats" /\ pc' \in {"container_stats", "ec2_sheet"}) =>
        LET cluster == clusters[pos + 1]
            listed == {q \in AllServices' : q[1] = cluster}
        IN  ecs_calls' - ecs_calls =
                1 + Cardinality(listed)
                  + Cardinality({q \in listed :
                                    IsRunning(q)' /\ HasTaskDef(q)'})

\* C11: the Fargate Usage sheet has exactly one data row for each service
\* with runningCount > 0 and no row for a service with runningCount = 0 or
\* one that cannot be described; for a service that is not running no task
\* definition is fetched and no size is computed; the returned row count is
\* 1 + the number of running services.  (A run that raises returns no sheet.)
C11_IdleServicesExcluded == []C11_Rows /\ [][C11_Calls]_vars

\* a finished run over two clusters: the service of one is running and has
\* its row, the service of the other has a task definition but no running
\* task and has no row; the sheet returned 2
C11_Witness ==
    /\ pc = "done"
    /\ FargateRowCount = 2
    /\ \E q, r \in AllServices :
          /\ IsRunning(q) /\ Cardinality(RowsOf(q)) = 1
          /\ ~IsRunning(r) /\ HasTaskDef(r) /\ RowsOf(r) = {}
          /\ InfoOf(r) = EmptyDict

\* the catalog vcpu values v with cpu / 1024 < v * fudge
CpuPassing(req) ==
    {v \in DOMAIN FARGATE_SIZES : req.cpu * 400 < v * 1024 * req.fudge}

\* the memory options m of the group of v with mem / 1024 < m
MemPassing(req, v) ==
    {m \in {t[2] : t \in {u \in Catalog : u[1] = v}} : req.mem < m * 512}

Smallest(S) == CHOOSE x \in S : \A y \in S : x <= y

\* the normalised requests that got a tier
Fitted == {k \in DOMAIN normOut : normOut[k] # NotFittable}

\* C12, as the spec states it: a returned tier (v, m) has for v the smallest
\* catalog vcpu value with cpu < v * fudge, and for m the smallest memory
\* option of that group with mem < m.
C12_FirstCpuTierIsTaken ==
    \A k \in Fitted :
        /\ CpuPassing(normIn[k]) # {}
        /\ normOut[k][1] = Smallest(CpuPassing(normIn[k]))
        /\ MemPassing(normIn[k], normOut[k][1]) # {}
        /\ normOut[k][2] = Smallest(MemPassing(normIn[k], normOut[k][1]))

\* the vcpu values that pass the CPU test and have a memory option that
\* passes the memory test
BothPassing(req) == {v \in CpuPassing(req) : MemPassing(req, v) # {}}

\* C12, as the code has it: a returned tier (v, m) has for v the smallest
\* catalog vcpu value with cpu < v * fudge whose group has a memory option
\* above mem, and for m the smallest memory option of that group with
\* mem < m; a group that passes the CPU test and has no such option is
\* passed over.
C12_FirstEnclosingTierIsTaken ==
    \A k \in Fitted :
        /\ BothPassing(normIn[k]) # {}
        /\ normOut[k][1] = Smallest(BothPassing(normIn[k]))
        /\ normOut[k][2] = Smallest(MemPassing(normIn[k], normOut[k][1]))

\* a request whose first CPU-passing group has no memory option large
\* enough, and which got a tier of a larger group
C12_Witness ==
    \E k \in Fitted :
        /\ MemPassing(normIn[k], Smallest(CpuPassing(normIn[k]))) = {}
        /\ normOut[k][1] > Smallest(CpuPassing(normIn[k]))

\* a call for a key whose price is in the cache: it returns the stored
\* price without raising, makes no query and leaves the cache as it was
C13_Hit ==
    (priceCalls' = priceCalls + 1
        /\ Get(price_history, priceCall'.key, None) # None) =>
            /\ last_lookups'[1].outcome = "hit"
            /\ last_lookups'[1].price = price_history[priceCall'.key]
            /\ pricing_queries' = pricing_queries
            /\ price_history' = price_history

\* a stored price is never replaced
C13_StoredOnce ==
    \A k \in DOMAIN price_history :
        k \in DOMAIN price_history' /\ price_history'[k] = price_history[k]

\* C13: once a lookup has stored a price for a key, every later lookup of
\* the key returns exactly the stored price, issues no pricing query and
\* leaves the cache unchanged, also when it is called with another discount
\* than the one the stored price was computed with.
C13_CacheHitChangesNothing == [][C13_Hit /\ C13_StoredOnce]_vars

\* a hit on an instance type whose stored price was computed with another
\* discount than the one of the call
C13_Witness ==
    /\ priceCalls >= 2
    /\ priceCall.fn = "get_ec2_price"
    /\ last_lookups[1].outcome = "hit"
    /\ last_lookups[1].price = price_history[priceCall.key]
    /\ \A e \in Ec2Entries(priceCall.key) :
          e.usd # None =>
              last_lookups[1].price # Discounted(e.usd, priceCall.discount)

====
